---- MODULE Spec2Model ----
(***************************************************************************)
(* TaskScheduler (src/TaskScheduler.py): non-preemptive list scheduling of *)
(* a task tree on num_proc identical processors, under the policies 'MIN'  *)
(* (shortest ready task first) and 'MAX' (longest ready task first), and   *)
(* the comparison of the two policies.                                     *)
(*                                                                         *)
(* A Task object is modelled by its identity (id(t), a number 1..n) and    *)
(* the heap `tasks` maps an identity to the object's fields.  The parent   *)
(* of the root is None.  One escalonar() call is a sequence of steps:      *)
(* the set-up (lines 99-110), then per loop iteration the test and sort    *)
(* (112-114), one step per admission (117-119) and the time jump with the  *)
(* completions (121-140), then the return (142).                           *)
(***************************************************************************)
EXTENDS Integers, Sequences, FiniteSets, TLC

VARIABLES
  tasks,           \* heap of Task objects: id -> [task_name, task_time, children, parent]
  raiz,            \* self.raiz: id of the root Task
  num_proc,        \* self.num_proc
  politica,        \* self.politica
  pc,              \* position of the running call: "idle" when no call is active
  chamador,        \* who called escalonar: "cliente", "compara_min", "compara_max"
  dependencias,    \* escalonar local: id -> unmet dependency count
  prontos,         \* escalonar local: ready list (ids)
  executando,      \* escalonar local: list of [tarefa, restante]
  ordem_execucao,  \* escalonar local: completed task names
  tempo_total,     \* escalonar local
  deltas,          \* history: the menor_tempo values added to tempo_total in this call
  min_tempo,       \* compara_politicas local
  antes,           \* history: the scheduler's fields when compara_politicas was called
  retorno,         \* the value the client received from its latest call
  carga,           \* _load_tree: the file, the lines still to read, its locals
  conc             \* two escalonar calls in flight on the one scheduler: each one's locals

vars == <<tasks, raiz, num_proc, politica, pc, chamador, dependencias, prontos,
          executando, ordem_execucao, tempo_total, deltas, min_tempo, antes, retorno,
          carga, conc>>

\* ------------------------------------------------------------------ bounds
MaxNodes == 3      \* largest tree of the enumerated family
MaxDur == 2        \* largest task_time of the enumerated family
MaxProc == 3       \* largest num_proc of the enumerated family

None == 0          \* Python's None (no parent, nothing returned yet)

Names == <<"A", "B", "C", "D", "E", "F", "G">>

Politicas == {"MIN", "MAX"}

\* ------------------------------------------------------------------ helpers
RECURSIVE SomaSeq(_)
SomaSeq(s) == IF s = <<>> THEN 0 ELSE Head(s) + SomaSeq(Tail(s))

Range(s) == {s[i] : i \in 1..Len(s)}

\* ------------------------------------------------------------------ trees
\* Task(task_name, task_time, children, parent) for every node of the tree
\* whose node i > 1 has parent par[i] and whose node i lasts dur[i]; the
\* children lists hold the children in the order the edges were read.
RECURSIVE FilhosDe(_, _, _)
FilhosDe(par, i, j) ==
  IF j > Len(par) THEN <<>>
  ELSE (IF par[j] = i THEN <<j>> ELSE <<>>) \o FilhosDe(par, i, j + 1)

Arvore(par, dur) ==
  [i \in 1..Len(par) |->
     [task_name |-> Names[i], task_time |-> dur[i],
      children |-> FilhosDe(par, i, 1), parent |-> par[i]]]

Pais(n) == {par \in [1..n -> 0..(n - 1)] :
              /\ par[1] = None
              /\ \A i \in 2..n : par[i] >= 1 /\ par[i] < i}

\* The trees _load_tree builds from files of edge lines: a node exists only
\* through an edge (lines 50-62), so the smallest tree has two nodes.
Familia ==
  UNION {{Arvore(par, dur) : par \in Pais(n), dur \in [1..n -> 0..MaxDur]}
         : n \in 2..MaxNodes}

\* The trees of the documented scenarios and of the two policies' trade-off.
ArvoreABC == Arvore(<<0, 1, 1>>, <<5, 3, 2>>)
ArvoreMinGanha == Arvore(<<0, 1, 1, 1, 2>>, <<0, 1, 2, 2, 3>>)
ArvoreMaxGanha == Arvore(<<0, 1, 1, 1>>, <<0, 1, 1, 2>>)
ArvoreEmpates == Arvore(<<0, 1, 1, 2, 3>>, <<1, 1, 1, 1, 1>>)
Cenarios == {ArvoreABC, ArvoreMinGanha, ArvoreMaxGanha, ArvoreEmpates}

\* ------------------------------------------------------------------ escalonar
\* The tasks dfs reaches from the tasks in S (lines 85-88), and whether dfs
\* from r comes back to a task it is still visiting: the recursion then has
\* no end and Python raises RecursionError.
RECURSIVE Alcanca(_, _)
Alcanca(ts, S) ==
  LET S2 == S \cup UNION {{ts[t].children[i] : i \in 1..Len(ts[t].children)} : t \in S}
  IN IF S2 = S THEN S ELSE Alcanca(ts, S2)

Ciclico(ts, r) ==
  \E t \in Alcanca(ts, {r}) :
     t \in Alcanca(ts, {ts[t].children[i] : i \in 1..Len(ts[t].children)})

\* coletar_tarefas: depth-first pre-order list of the tasks under `task`.
RECURSIVE dfs(_, _), dfsFilhos(_, _)
dfs(ts, t) == <<t>> \o dfsFilhos(ts, ts[t].children)
dfsFilhos(ts, fs) ==
  IF fs = <<>> THEN <<>> ELSE dfs(ts, Head(fs)) \o dfsFilhos(ts, Tail(fs))

coletar_tarefas(ts, task) == dfs(ts, task)

\* {id(t): t for t in ...}: the keys of the dict in insertion order.
RECURSIVE ChavesDict(_)
ChavesDict(s) ==
  IF s = <<>> THEN <<>>
  ELSE LET r == ChavesDict(SubSeq(s, 1, Len(s) - 1))
           x == s[Len(s)]
       IN IF x \in Range(r) THEN r ELSE Append(r, x)

todas_tarefas(ts, r) == ChavesDict(coletar_tarefas(ts, r))

\* Lines 100-105: every task starts at 0 and gains 1 per children-list entry.
ContaFilho(ts, t, f) == Cardinality({i \in 1..Len(ts[t].children) : ts[t].children[i] = f})

RECURSIVE SomaFilho(_, _, _)
SomaFilho(ts, todas, f) ==
  IF todas = <<>> THEN 0
  ELSE ContaFilho(ts, Head(todas), f) + SomaFilho(ts, Tail(todas), f)

DependenciasIniciais(ts, todas) ==
  [f \in Range(todas) |-> SomaFilho(ts, todas, f)]

\* Mutant: the dependency test of line 107 is lost.
ProntosTodas(todas, dep) == todas

\* Line 107.
ProntosIniciais(todas, dep) == SelectSeq(todas, LAMBDA t : dep[t] = 0)

\* Mutant: the elapsed time lives on across calls instead of starting at 0.
TempoInicialAcumulado == IF retorno.op = "escalonar" THEN retorno.tempo ELSE 0

\* Line 110.
TempoInicial == 0

\* Line 114: list.sort(key=task_time, reverse=...) is stable in both directions.
\* self.politica.upper() == "MAX" (line 114).  In Python's Unicode tables the
\* only characters whose upper case is M, A or X are those letters and m, a
\* and x, and no character's upper case holds two of them, so the test holds
\* exactly for the three-character strings below.
Reverso(p) ==
  /\ Len(p) = 3
  /\ SubSeq(p, 1, 1) \in {"M", "m"}
  /\ SubSeq(p, 2, 2) \in {"A", "a"}
  /\ SubSeq(p, 3, 3) \in {"X", "x"}

\* Mutant: an element also goes before the elements it ties with.
AntesOuIgual(ts, a, b, rev) ==
  IF rev THEN ts[a].task_time >= ts[b].task_time
         ELSE ts[a].task_time <= ts[b].task_time

Antes(ts, a, b, rev) ==
  IF rev THEN ts[a].task_time > ts[b].task_time
         ELSE ts[a].task_time < ts[b].task_time

\* x goes after the elements already placed that do not come after it.
RECURSIVE Insere(_, _, _, _)
Insere(ts, s, x, rev) ==
  IF s = <<>> THEN <<x>>
  ELSE IF Antes(ts, x, s[Len(s)], rev)
       THEN Append(Insere(ts, SubSeq(s, 1, Len(s) - 1), x, rev), s[Len(s)])
       ELSE Append(s, x)

RECURSIVE Ordena(_, _, _)
Ordena(ts, s, rev) ==
  IF s = <<>> THEN <<>>
  ELSE Insere(ts, Ordena(ts, SubSeq(s, 1, Len(s) - 1), rev), s[Len(s)], rev)

\* Mutant: the admission loop leaves one processor unused.
PodeAlocarMenosUm(exe, pr, np) == Len(exe) < np - 1 /\ pr # <<>>

\* Mutant: <= for < in the admission loop's condition.
PodeAlocarAteCheio(exe, pr, np) == Len(exe) <= np /\ pr # <<>>

\* Line 117: the admission loop's condition.
PodeAlocar(exe, pr, np) == Len(exe) < np /\ pr # <<>>

\* Line 119.
\* Mutant: every task runs one unit longer than its duration.
NovoItemMaisUm(ts, t) == [tarefa |-> t, restante |-> ts[t].task_time + 1]

\* Mutant: a task that takes no time is given one unit to run.
NovoItemUmNoMinimo(ts, t) ==
  [tarefa |-> t, restante |-> IF ts[t].task_time = 0 THEN 1 ELSE ts[t].task_time]

NovoItem(ts, t) == [tarefa |-> t, restante |-> ts[t].task_time]

\* Mutant: max for min in line 125.
RECURSIVE MaiorRestante(_)
MaiorRestante(exe) ==
  IF Len(exe) = 1 THEN exe[1].restante
  ELSE LET m == MaiorRestante(Tail(exe))
       IN IF exe[1].restante >= m THEN exe[1].restante ELSE m

\* Line 125.
RECURSIVE MinRestante(_)
MinRestante(exe) ==
  IF Len(exe) = 1 THEN exe[1].restante
  ELSE LET m == MinRestante(Tail(exe))
       IN IF exe[1].restante <= m THEN exe[1].restante ELSE m

\* Mutant: = for += in line 126.
NovoTempoSemSoma(t, d) == d

\* Line 126: tempo_total += menor_tempo.
NovoTempo(t, d) == t + d

\* Lines 127-128.
\* Mutant: the time jump is taken off the first running item only.
DescontaSoPrimeiro(exe, d) ==
  [i \in 1..Len(exe) |->
     [tarefa |-> exe[i].tarefa,
      restante |-> IF i = 1 THEN exe[i].restante - d ELSE exe[i].restante]]

Desconta(exe, d) ==
  [i \in 1..Len(exe) |-> [tarefa |-> exe[i].tarefa, restante |-> exe[i].restante - d]]

\* Mutant: only the first completed task of an iteration is processed.
ConcluidasSoPrimeira(exe) ==
  LET c == SelectSeq(exe, LAMBDA t : t.restante = 0)
  IN IF c = <<>> THEN c ELSE <<Head(c)>>

\* Mutant: >= for > in line 132, a finished task keeps its processor.
AindaComZero(exe) == SelectSeq(exe, LAMBDA t : t.restante >= 0)

\* Lines 131-132.
Concluidas(exe) == SelectSeq(exe, LAMBDA t : t.restante = 0)

AindaExecutando(exe) == SelectSeq(exe, LAMBDA t : t.restante > 0)

\* Lines 137-140 for the children of one completed task; st = [dep, pr, ord].
RECURSIVE Libera(_, _)
Libera(st, filhos) ==
  IF filhos = <<>> THEN st
  ELSE LET f == Head(filhos)
           d == st.dep[f] - 1
           st1 == [st EXCEPT !.dep[f] = d,
                             !.pr = IF d = 0 THEN Append(st.pr, f) ELSE st.pr]
       IN Libera(st1, Tail(filhos))

\* Mutant: the completed items are handled from the last one to the first.
RECURSIVE ConcluiDoFim(_, _, _)
ConcluiDoFim(ts, st, itens) ==
  IF itens = <<>> THEN st
  ELSE LET t == itens[Len(itens)].tarefa
           st1 == [st EXCEPT !.ord = Append(st.ord, ts[t].task_name)]
       IN ConcluiDoFim(ts, Libera(st1, ts[t].children), SubSeq(itens, 1, Len(itens) - 1))

\* Lines 134-140.
RECURSIVE Conclui(_, _, _)
Conclui(ts, st, itens) ==
  IF itens = <<>> THEN st
  ELSE LET t == Head(itens).tarefa
           st1 == [st EXCEPT !.ord = Append(st.ord, ts[t].task_name)]
       IN Conclui(ts, Libera(st1, ts[t].children), Tail(itens))

\* ------------------------------------------------------------------ state machine
\* The loader has run to its end (the tree is given in `tasks`).
CargaFeita == [fase |-> "feita"]

\* No pair of concurrent calls is in flight.
SemChamadas == <<>>


\* The scheduler after construction (lines 25-30): a tree and a processor
\* count from the input, politica = "MAX"; no call is active.
Init ==
  /\ tasks \in Familia \cup Cenarios
  /\ raiz = 1
  /\ num_proc \in 0..MaxProc
  /\ politica = "MAX"
  /\ pc = "idle"
  /\ chamador = "cliente"
  /\ dependencias = <<>>
  /\ prontos = <<>>
  /\ executando = <<>>
  /\ ordem_execucao = <<>>
  /\ tempo_total = 0
  /\ deltas = <<>>
  /\ min_tempo = None
  /\ antes = None
  /\ retorno = [op |-> "nenhuma"]
  /\ carga = CargaFeita
  /\ conc = SemChamadas

\* Lines 99-110 with self.politica as given.
Prepara ==
  LET todas == todas_tarefas(tasks, raiz)
      dep == DependenciasIniciais(tasks, todas)
  IN /\ dependencias' = dep
     /\ prontos' = ProntosIniciais(todas, dep)
     /\ executando' = <<>>
     /\ ordem_execucao' = <<>>
     /\ tempo_total' = TempoInicial
     /\ deltas' = <<>>
     /\ pc' = "while"

\* The client assigns scheduler.politica between calls.
SetPolitica(p) ==
  /\ pc = "idle"
  /\ politica # p
  /\ politica' = p
  /\ UNCHANGED <<carga, conc, tasks, raiz, num_proc, pc, chamador, dependencias, prontos, executando,
                 ordem_execucao, tempo_total, deltas, min_tempo, antes, retorno>>

\* The client calls escalonar().
ChamaEscalonar ==
  /\ pc = "idle"
  /\ ~Ciclico(tasks, raiz)
  /\ chamador' = "cliente"
  /\ Prepara
  /\ UNCHANGED <<carga, conc, tasks, raiz, num_proc, politica, min_tempo, antes, retorno>>

\* Lines 112-114: the loop goes on; the ready list is sorted.
Enquanto ==
  /\ pc = "while"
  /\ prontos # <<>> \/ executando # <<>>
  /\ prontos' = Ordena(tasks, prontos, Reverso(politica))
  /\ pc' = "aloca"
  /\ UNCHANGED <<carga, conc, tasks, raiz, num_proc, politica, chamador, dependencias, executando,
                 ordem_execucao, tempo_total, deltas, min_tempo, antes, retorno>>

\* Line 112: nothing ready, nothing running.
FimEnquanto ==
  /\ pc = "while"
  /\ prontos = <<>> /\ executando = <<>>
  /\ pc' = "retorna"
  /\ UNCHANGED <<carga, conc, tasks, raiz, num_proc, politica, chamador, dependencias, prontos,
                 executando, ordem_execucao, tempo_total, deltas, min_tempo, antes, retorno>>

\* Lines 117-119: one admission.
Aloca ==
  /\ pc = "aloca"
  /\ PodeAlocar(executando, prontos, num_proc)
  /\ executando' = Append(executando, NovoItem(tasks, Head(prontos)))
  /\ prontos' = Tail(prontos)
  /\ UNCHANGED <<carga, conc, tasks, raiz, num_proc, politica, pc, chamador, dependencias,
                 ordem_execucao, tempo_total, deltas, min_tempo, antes, retorno>>

\* Lines 121-122: nothing could be admitted and nothing runs.
Break ==
  /\ pc = "aloca"
  /\ ~PodeAlocar(executando, prontos, num_proc)
  /\ executando = <<>>
  /\ pc' = "retorna"
  /\ UNCHANGED <<carga, conc, tasks, raiz, num_proc, politica, chamador, dependencias, prontos,
                 executando, ordem_execucao, tempo_total, deltas, min_tempo, antes, retorno>>

\* Lines 124-140: the time jump and the completions.
Avanca ==
  /\ pc = "aloca"
  /\ ~PodeAlocar(executando, prontos, num_proc)
  /\ executando # <<>>
  /\ LET menor_tempo == MinRestante(executando)
         exe == Desconta(executando, menor_tempo)
         st == Conclui(tasks,
                       [dep |-> dependencias, pr |-> prontos, ord |-> ordem_execucao],
                       Concluidas(exe))
     IN /\ tempo_total' = NovoTempo(tempo_total, menor_tempo)
        /\ deltas' = Append(deltas, menor_tempo)
        /\ executando' = AindaExecutando(exe)
        /\ dependencias' = st.dep
        /\ prontos' = st.pr
        /\ ordem_execucao' = st.ord
  /\ pc' = "while"
  /\ UNCHANGED <<carga, conc, tasks, raiz, num_proc, politica, chamador, min_tempo, antes, retorno>>

\* Line 142, back in the client.
Retorna ==
  /\ pc = "retorna"
  /\ chamador = "cliente"
  /\ retorno' = [op |-> "escalonar", politica |-> politica,
                 tempo |-> tempo_total, ordem |-> ordem_execucao]
  /\ pc' = "idle"
  /\ UNCHANGED <<carga, conc, tasks, raiz, num_proc, politica, chamador, dependencias, prontos,
                 executando, ordem_execucao, tempo_total, deltas, min_tempo, antes>>

\* ------------------------------------------------------------------ compara_politicas
\* Mutant: the comparison of line 160 is turned around.
MelhorPoliticaTrocada(min_t, max_t) ==
  IF min_t = max_t THEN "IGUAIS"
  ELSE IF min_t < max_t THEN "MAX"
  ELSE "MIN"

\* Lines 158-162.
MelhorPolitica(min_t, max_t) ==
  IF min_t = max_t THEN "IGUAIS"
  ELSE IF min_t > max_t THEN "MAX"
  ELSE "MIN"

\* sum(t.task_time for t in tarefas), line 154.
RECURSIVE SomaTempos(_, _)
SomaTempos(ts, tarefas) ==
  IF tarefas = <<>> THEN 0
  ELSE ts[Head(tarefas)].task_time + SomaTempos(ts, Tail(tarefas))

\* Lines 152-176.  The two ratios rounded to two decimals
\* (proporcao_proc_tarefas, media_tempo_por_tarefa) are floating-point
\* values derived from the fields below and are not kept.
Info(ts, r, np, min_t, max_t) ==
  LET tarefas == coletar_tarefas(ts, r)
  IN [proc |-> np,
      quantidade_tarefas |-> Len(tarefas),
      melhor_politica |-> MelhorPolitica(min_t, max_t),
      politica_max |-> max_t,
      politica_min |-> min_t,
      soma_total_tempos |-> SomaTempos(ts, tarefas)]

\* The client calls compara_politicas(): lines 147-148 up to the first
\* escalonar's set-up.
ChamaCompara ==
  /\ pc = "idle"
  /\ antes' = [tasks |-> tasks, raiz |-> raiz, num_proc |-> num_proc,
               politica |-> politica]
  /\ politica' = "MIN"
  /\ chamador' = "compara_min"
  /\ Prepara
  /\ UNCHANGED <<carga, conc, tasks, raiz, num_proc, min_tempo, retorno>>

\* Lines 148-150: the first run returns, the second one is set up.
RetornaComparaMin ==
  /\ pc = "retorna"
  /\ chamador = "compara_min"
  /\ min_tempo' = tempo_total
  /\ politica' = "MAX"
  /\ chamador' = "compara_max"
  /\ Prepara
  /\ UNCHANGED <<carga, conc, tasks, raiz, num_proc, antes, retorno>>

\* Lines 150-178: the second run returns and the report is returned.
RetornaCompara ==
  /\ pc = "retorna"
  /\ chamador = "compara_max"
  /\ num_proc # 0
  /\ retorno' = [op |-> "compara",
                 info |-> Info(tasks, raiz, num_proc, min_tempo, tempo_total)]
  /\ pc' = "idle"
  /\ chamador' = "cliente"
  /\ min_tempo' = None
  /\ antes' = None
  /\ UNCHANGED <<carga, conc, tasks, raiz, num_proc, politica, dependencias, prontos, executando,
                 ordem_execucao, tempo_total, deltas>>

\* Line 156 with num_proc = 0: len(tarefas)/self.num_proc raises
\* ZeroDivisionError and the call ends without a report.
ComparaErro ==
  /\ pc = "retorna"
  /\ chamador = "compara_max"
  /\ num_proc = 0
  /\ retorno' = [op |-> "erro"]
  /\ pc' = "idle"
  /\ chamador' = "cliente"
  /\ min_tempo' = None
  /\ antes' = None
  /\ UNCHANGED <<carga, conc, tasks, raiz, num_proc, politica, dependencias, prontos, executando,
                 ordem_execucao, tempo_total, deltas>>

Next ==
  \/ \E p \in Politicas : SetPolitica(p)
  \/ ChamaCompara
  \/ RetornaComparaMin
  \/ RetornaCompara
  \/ ComparaErro
  \/ ChamaEscalonar
  \/ Enquanto
  \/ FimEnquanto
  \/ Aloca
  \/ Break
  \/ Avanca
  \/ Retorna

Spec == Init /\ [][Next]_vars

\* The client's escalonar() calls alone, and a call in progress keeps
\* running: the loop is sequential code that is never suspended.
Passo == Enquanto \/ FimEnquanto \/ Aloca \/ Break \/ Avanca

NextEscalonar ==
  \/ \E p \in Politicas : SetPolitica(p)
  \/ ChamaEscalonar
  \/ Passo
  \/ Retorna

SpecEscalonar == Init /\ [][NextEscalonar]_vars /\ WF_vars(Passo)

\* ------------------------------------------------------------------ _load_tree
MaxLinhas == 2     \* longest input file, in lines

\* The raw "Name_Time" tokens of the input: a name and the text of a
\* duration.  int() reads "02" as 2 and the f-string of line 65 writes 2 as
\* "2", so a token need not be the text its Task is formatted to.
NomesCarga == {"A", "B", "C"}
Textos == {"1", "02"}
Tokens == [nome : NomesCarga, txt : Textos]

\* int(tempo), line 36.
IntDe(txt) == CASE txt = "1" -> 1 [] txt = "02" -> 2

\* f"{c.task_time}", line 65.
StrDe(k) == CASE k = 1 -> "1" [] k = 2 -> "2"

\* Lines 33-36.
parse_task(raw) ==
  [task_name |-> raw.nome, task_time |-> IntDe(raw.txt), children |-> <<>>,
   parent |-> None]

\* f"{c.task_name}_{c.task_time}", line 65.
Formata(t) == [nome |-> t.task_name, txt |-> StrDe(t.task_time)]

\* A line holds '#' and a processor count at column 7, or an edge, or neither.
Linhas ==
  [tipo : {"aresta"}, pai : Tokens, filho : Tokens]
    \cup [tipo : {"proc"}, valor : {0, 2}]
    \cup {[tipo |-> "outra"]}

Arquivos == UNION {[1..n -> Linhas] : n \in 0..MaxLinhas}

\* Lines 52-55: the Task of a token, created at its first sight.
ComNo(st, raw) ==
  IF raw \in DOMAIN st.nodes THEN st
  ELSE [st EXCEPT !.nodes = (raw :> (Len(st.ts) + 1)) @@ st.nodes,
                  !.ts = Append(st.ts, parse_task(raw))]

\* Lines 50-62 for one edge line; st = [nodes, ts, pais].
LeAresta(st, pai_raw, filho_raw) ==
  LET st2 == ComNo(ComNo(st, pai_raw), filho_raw)
      pai == st2.nodes[pai_raw]
      filho == st2.nodes[filho_raw]
      ts1 == [st2.ts EXCEPT ![pai].children = Append(@, filho)]
      ts2 == [ts1 EXCEPT ![filho].parent = pai]
  IN [nodes |-> st2.nodes, ts |-> ts2, pais |-> st2.pais \cup {pai_raw}]

\* Line 65.
TodosFilhos(ts) ==
  UNION {{Formata(ts[ts[n].children[i]]) : i \in 1..Len(ts[n].children)}
         : n \in DOMAIN ts}

\* Line 66: pais - todos_filhos.
Candidatos(pais, ts) == pais \ TodosFilhos(ts)

\* TaskScheduler(file_path) has run lines 26-29 and enters _load_tree.
InitCarga ==
  /\ \E arq \in Arquivos :
       carga = [fase |-> "lendo", arquivo |-> arq, linhas |-> arq, nodes |-> <<>>,
                pais |-> {}, proc |-> 1]
  /\ tasks = <<>>
  /\ raiz = None
  /\ num_proc = 1
  /\ politica = "MAX"
  /\ pc = "carga"
  /\ chamador = "cliente"
  /\ dependencias = <<>>
  /\ prontos = <<>>
  /\ executando = <<>>
  /\ ordem_execucao = <<>>
  /\ tempo_total = 0
  /\ deltas = <<>>
  /\ min_tempo = None
  /\ antes = None
  /\ retorno = [op |-> "nenhuma"]
  /\ conc = SemChamadas

\* Lines 45-62: one line of the file.
LeLinha ==
  /\ pc = "carga"
  /\ carga.linhas # <<>>
  /\ LET l == Head(carga.linhas)
         st == IF l.tipo = "aresta"
               THEN LeAresta([nodes |-> carga.nodes, ts |-> tasks, pais |-> carga.pais],
                             l.pai, l.filho)
               ELSE [nodes |-> carga.nodes, ts |-> tasks, pais |-> carga.pais]
     IN /\ carga' = [carga EXCEPT !.linhas = Tail(carga.linhas),
                                  !.nodes = st.nodes,
                                  !.pais = st.pais,
                                  !.proc = IF l.tipo = "proc" THEN l.valor ELSE @]
        /\ tasks' = st.ts
  /\ UNCHANGED <<conc, raiz, num_proc, politica, pc, chamador, dependencias, prontos,
                 executando, ordem_execucao, tempo_total, deltas, min_tempo, antes,
                 retorno>>

\* Lines 65-68: list(pais - todos_filhos)[0] is whichever element the set's
\* iteration yields first.
RaizEscolhida ==
  /\ pc = "carga"
  /\ carga.linhas = <<>>
  /\ \E raiz_nome \in Candidatos(carga.pais, tasks) :
       raiz' = carga.nodes[raiz_nome]
  /\ num_proc' = carga.proc
  /\ carga' = [carga EXCEPT !.fase = "ok"]
  /\ pc' = "idle"
  /\ UNCHANGED <<conc, tasks, politica, chamador, dependencias, prontos, executando,
                 ordem_execucao, tempo_total, deltas, min_tempo, antes, retorno>>

\* Line 66 on an empty difference: IndexError leaves the constructor.
RaizAusente ==
  /\ pc = "carga"
  /\ carga.linhas = <<>>
  /\ Candidatos(carga.pais, tasks) = {}
  /\ carga' = [carga EXCEPT !.fase = "IndexError"]
  /\ pc' = "falhou"
  /\ UNCHANGED <<conc, tasks, raiz, num_proc, politica, chamador, dependencias, prontos,
                 executando, ordem_execucao, tempo_total, deltas, min_tempo, antes,
                 retorno>>

\* escalonar() on a tree with a cycle under the root: dfs (lines 85-88)
\* recurses until RecursionError.
EscalonarRecursao ==
  /\ pc = "idle"
  /\ Ciclico(tasks, raiz)
  /\ retorno' = [op |-> "RecursionError"]
  /\ UNCHANGED <<carga, conc, tasks, raiz, num_proc, politica, pc, chamador,
                 dependencias, prontos, executando, ordem_execucao, tempo_total, deltas,
                 min_tempo, antes>>

NextCarga ==
  \/ LeLinha
  \/ RaizEscolhida
  \/ RaizAusente
  \/ ChamaEscalonar
  \/ EscalonarRecursao
  \/ Enquanto
  \/ FimEnquanto
  \/ Aloca
  \/ Break
  \/ Avanca
  \/ Retorna

SpecCarga == InitCarga /\ [][NextCarga]_vars

\* ------------------------------------------------------------------ two calls in flight
\* escalonar's locals after lines 99-110; `pol` is self.politica at the call.
NovaChamada(ts, r, pol) ==
  LET todas == todas_tarefas(ts, r)
      dep == DependenciasIniciais(ts, todas)
  IN [fase |-> "loop", pol |-> pol, dep |-> dep, pr |-> ProntosIniciais(todas, dep),
      exe |-> <<>>, ord |-> <<>>, tempo |-> TempoInicial]

NaoChamada ==
  [fase |-> "nao", pol |-> "", dep |-> <<>>, pr |-> <<>>, exe |-> <<>>, ord |-> <<>>,
   tempo |-> 0]

\* Lines 117-119: the whole admission loop.
RECURSIVE Admite(_, _, _)
Admite(ts, c, np) ==
  IF PodeAlocar(c.exe, c.pr, np)
  THEN Admite(ts, [c EXCEPT !.exe = Append(c.exe, NovoItem(ts, Head(c.pr))),
                            !.pr = Tail(c.pr)], np)
  ELSE c

\* Lines 114-140: one execution of the loop body, self.politica being pol.
Iteracao(ts, np, pol, c) ==
  LET a == Admite(ts, [c EXCEPT !.pr = Ordena(ts, c.pr, Reverso(pol))], np)
  IN IF a.exe = <<>> THEN [a EXCEPT !.fase = "fim"]
     ELSE LET menor_tempo == MinRestante(a.exe)
              exe == Desconta(a.exe, menor_tempo)
              st == Conclui(ts, [dep |-> a.dep, pr |-> a.pr, ord |-> a.ord],
                            Concluidas(exe))
          IN [a EXCEPT !.tempo = NovoTempo(a.tempo, menor_tempo),
                       !.exe = AindaExecutando(exe),
                       !.dep = st.dep, !.pr = st.pr, !.ord = st.ord]

\* Lines 112-142 with self.politica left alone: the call run to its return.
RECURSIVE Executa(_, _, _, _)
Executa(ts, np, pol, c) ==
  IF c.fase = "fim" \/ (c.pr = <<>> /\ c.exe = <<>>) THEN c
  ELSE Executa(ts, np, pol, Iteracao(ts, np, pol, c))

Sozinha(ts, r, np, pol) ==
  LET c == Executa(ts, np, pol, NovaChamada(ts, r, pol))
  IN <<c.tempo, c.ord>>

Chamadas == {1, 2}

InitConc ==
  /\ tasks \in Familia \cup Cenarios
  /\ raiz = 1
  /\ num_proc \in 0..MaxProc
  /\ politica = "MAX"
  /\ pc = "idle"
  /\ chamador = "cliente"
  /\ dependencias = <<>>
  /\ prontos = <<>>
  /\ executando = <<>>
  /\ ordem_execucao = <<>>
  /\ tempo_total = 0
  /\ deltas = <<>>
  /\ min_tempo = None
  /\ antes = None
  /\ retorno = [op |-> "nenhuma"]
  /\ carga = CargaFeita
  /\ conc = [i \in Chamadas |-> NaoChamada]

\* A caller sets self.politica and calls escalonar(), as lines 147-148 and
\* 149-150 do.
ConcChama(i, p) ==
  /\ conc[i].fase = "nao"
  /\ politica' = p
  /\ conc' = [conc EXCEPT ![i] = NovaChamada(tasks, raiz, p)]
  /\ UNCHANGED <<carga, tasks, raiz, num_proc, pc, chamador, dependencias, prontos,
                 executando, ordem_execucao, tempo_total, deltas, min_tempo, antes,
                 retorno>>

\* One loop iteration of call i (lines 112-140); line 114 reads self.politica.
ConcIteracao(i) ==
  /\ conc[i].fase = "loop"
  /\ conc[i].pr # <<>> \/ conc[i].exe # <<>>
  /\ conc' = [conc EXCEPT ![i] = Iteracao(tasks, num_proc, politica, conc[i])]
  /\ UNCHANGED <<carga, tasks, raiz, num_proc, politica, pc, chamador, dependencias,
                 prontos, executando, ordem_execucao, tempo_total, deltas, min_tempo,
                 antes, retorno>>

\* Lines 112 and 142: call i leaves the loop and returns.
ConcFim(i) ==
  /\ conc[i].fase = "loop"
  /\ conc[i].pr = <<>> /\ conc[i].exe = <<>>
  /\ conc' = [conc EXCEPT ![i].fase = "fim"]
  /\ UNCHANGED <<carga, tasks, raiz, num_proc, politica, pc, chamador, dependencias,
                 prontos, executando, ordem_execucao, tempo_total, deltas, min_tempo,
                 antes, retorno>>

NextConc ==
  \/ \E i \in Chamadas, p \in Politicas : ConcChama(i, p)
  \/ \E i \in Chamadas : ConcIteracao(i)
  \/ \E i \in Chamadas : ConcFim(i)

SpecConc == InitConc /\ [][NextConc]_vars

\* ------------------------------------------------------------------ properties
Nos == DOMAIN tasks
NumNos == Cardinality(Nos)
NoDe(nome) == CHOOSE i \in Nos : tasks[i].task_name = nome
Ocorrencias(s, x) == Cardinality({k \in 1..Len(s) : s[k] = x})
SomaDuracoes == SomaTempos(tasks, coletar_tarefas(tasks, raiz))
MaiorDuracao == CHOOSE d \in {tasks[i].task_time : i \in Nos} :
                  \A i \in Nos : tasks[i].task_time <= d
Teto(a, b) == (a + b - 1) \div b
EmExecucao == {executando[k].tarefa : k \in 1..Len(executando)}

\* C1: with num_proc >= 1, the order escalonar returns has as many entries
\* as the tree has nodes and holds the name of every node exactly once.
C1_OrdemCompleta ==
  (pc = "retorna" /\ num_proc >= 1) =>
     /\ Len(ordem_execucao) = NumNos
     /\ \A i \in Nos : Ocorrencias(ordem_execucao, tasks[i].task_name) = 1

C1_Witness ==
  /\ pc = "retorna" /\ num_proc = 2 /\ politica = "MIN"
  /\ NumNos = 3 /\ Len(ordem_execucao) = 3

\* C2: at every point of a run, every non-root name in the order comes
\* strictly after its parent's name, and every task in the running list has
\* a parent that has already completed (or has no parent).
C2_PaiAntes ==
  /\ \A k \in 1..Len(ordem_execucao) :
       LET p == tasks[NoDe(ordem_execucao[k])].parent
       IN p # None => \E j \in 1..(k - 1) : ordem_execucao[j] = tasks[p].task_name
  /\ \A t \in EmExecucao :
       tasks[t].parent # None =>
          Ocorrencias(ordem_execucao, tasks[tasks[t].parent].task_name) = 1

C2_Witness ==
  /\ pc = "aloca" /\ num_proc = 2 /\ Len(executando) = 2
  /\ \A t \in EmExecucao : tasks[t].parent # None
  /\ prontos = <<>>

\* C3: the running list never holds more than num_proc tasks.
C3_Capacidade == Len(executando) <= num_proc

C3_Witness ==
  /\ pc = "aloca" /\ num_proc = 2 /\ Len(executando) = 2 /\ prontos # <<>>

\* C4: with num_proc >= 1, the returned tempo_total is at least the largest
\* task_time and at least ceil(sum of the task_times / num_proc).
C4_LimiteInferior ==
  (pc = "retorna" /\ num_proc >= 1) =>
     /\ tempo_total >= MaiorDuracao
     /\ tempo_total >= Teto(SomaDuracoes, num_proc)

C4_Witness ==
  /\ pc = "retorna" /\ num_proc = 2 /\ NumNos = 3
  /\ tempo_total > MaiorDuracao
  /\ tempo_total > Teto(SomaDuracoes, num_proc)

\* C5: with num_proc = 1 every run returns the sum of all task_times, under
\* 'MIN' as under 'MAX', so the comparison reports the same makespan for
\* both policies (6 for the chain A_2 -> B_2 -> C_2).
C5_UmProcessador ==
  /\ (pc = "retorna" /\ num_proc = 1) => tempo_total = SomaDuracoes
  /\ (retorno.op = "compara" /\ num_proc = 1) =>
        /\ retorno.info.politica_min = SomaDuracoes
        /\ retorno.info.politica_max = SomaDuracoes

CadeiaABC == Arvore(<<0, 1, 2>>, <<2, 2, 2>>)

C5_Witness ==
  /\ tasks = CadeiaABC /\ num_proc = 1
  /\ retorno.op = "compara"
  /\ retorno.info.politica_min = 6 /\ retorno.info.politica_max = 6
  /\ pc = "retorna" /\ politica = "MIN" /\ tempo_total = 6

\* C6: for A_5 -> B_3, A_5 -> C_2 on 2 processors under 'MIN': A runs alone
\* from time 0, B and C are both running once the admissions at time 5 are
\* over, and the run returns (8, [A, C, B]).
C6_Cenario ==
  (tasks = ArvoreABC /\ num_proc = 2 /\ politica = "MIN" /\ pc # "idle") =>
     /\ 1 \in EmExecucao => (EmExecucao = {1} /\ tempo_total = 0)
     /\ (EmExecucao \cap {2, 3} # {}) => (tempo_total >= 5 /\ ordem_execucao[1] = "A")
     /\ (pc = "aloca" /\ tempo_total = 5 /\ ~PodeAlocar(executando, prontos, num_proc))
           => EmExecucao = {2, 3}
     /\ pc = "retorna" => (tempo_total = 8 /\ ordem_execucao = <<"A", "C", "B">>)

C6_Witness ==
  /\ tasks = ArvoreABC /\ num_proc = 2 /\ politica = "MIN"
  /\ pc = "retorna" /\ tempo_total = 8 /\ ordem_execucao = <<"A", "C", "B">>

\* C7: during a run tempo_total is the sum of the menor_tempo values added so
\* far, no step of the run decreases it, and for a tree of one node on at
\* least one processor the returned tempo_total is that node's task_time.
\* No file makes _load_tree build a tree of one node, so that case is
\* escalonar's loop applied to a Task without children that has the root's
\* duration, with the scheduler's processors and policy.
C7_TempoMonotono ==
  /\ [](pc # "idle" => tempo_total = SomaSeq(deltas))
  /\ []((pc = "retorna" /\ num_proc >= 1) =>
          Sozinha(Arvore(<<0>>, <<tasks[raiz].task_time>>), 1, num_proc, politica)
            = <<tasks[raiz].task_time, <<"A">>>>)
  /\ [][(pc \in {"while", "aloca"}) => tempo_total' >= tempo_total]_vars

C7_Witness ==
  /\ pc = "retorna" /\ Len(deltas) = 3 /\ tempo_total = 4 /\ deltas[1] = 0

\* C8: a run under the policy of the client's preceding escalonar call
\* returns the pair that call returned.
C8_Determinismo ==
  (pc = "retorna" /\ retorno.op = "escalonar" /\ retorno.politica = politica) =>
     /\ tempo_total = retorno.tempo
     /\ ordem_execucao = retorno.ordem

C8_Witness ==
  /\ pc = "retorna" /\ chamador = "cliente"
  /\ retorno.op = "escalonar" /\ retorno.politica = politica
  /\ num_proc = 2 /\ Len(retorno.ordem) = 3 /\ retorno.tempo > 0

\* C9: the report's verdict is IGUAIS exactly when the two makespans are
\* equal, MAX exactly when the 'MIN' run took strictly longer, MIN otherwise;
\* and a run of escalonar on the same scheduler under 'MIN' ('MAX') returns
\* the makespan reported as politica_min (politica_max).
C9_Veredito ==
  /\ retorno.op = "compara" =>
        LET i == retorno.info
        IN /\ i.melhor_politica \in {"IGUAIS", "MAX", "MIN"}
           /\ i.melhor_politica = "IGUAIS" <=> i.politica_min = i.politica_max
           /\ i.melhor_politica = "MAX" <=> i.politica_min > i.politica_max
           /\ i.melhor_politica = "MIN" <=> i.politica_min < i.politica_max
           /\ i.proc = num_proc
  /\ (retorno.op = "compara" /\ pc = "retorna" /\ chamador = "cliente") =>
        tempo_total = IF politica = "MIN" THEN retorno.info.politica_min
                                          ELSE retorno.info.politica_max

C9_Witness ==
  /\ retorno.op = "compara" /\ retorno.info.melhor_politica = "MIN"
  /\ pc = "retorna" /\ chamador = "cliente" /\ politica = "MIN"

\* C10: when compara_politicas returns its report, the tree, the processor
\* count and the configured policy are what they were when it was called.
C10_SemEfeitos ==
  [][(pc = "retorna" /\ chamador = "compara_max" /\ retorno'.op = "compara") =>
        /\ tasks' = antes.tasks
        /\ raiz' = antes.raiz
        /\ num_proc' = antes.num_proc
        /\ politica' = antes.politica]_vars

\* C11: the loader returns a root only when exactly one token was a parent
\* and never a child; otherwise it fails.
C11_RaizUnica ==
  carga.fase = "ok" => Cardinality(Candidatos(carga.pais, tasks)) = 1

\* C12: loading never succeeds with num_proc < 1, and escalonar never returns
\* with num_proc < 1 or with fewer names in the order than tasks in the tree.
C12_ProcValido ==
  /\ carga.fase = "ok" => num_proc >= 1
  /\ pc = "retorna" =>
        /\ num_proc >= 1
        /\ Len(ordem_execucao) = Len(todas_tarefas(tasks, raiz))

\* C13: every run reaches its return; it starts at most as many loop
\* iterations as the tree has nodes, and every iteration that gets to the
\* time jump completes at least one task.
Iteracoes == Len(deltas) + (IF pc = "aloca" THEN 1 ELSE 0)

C13_Termina ==
  /\ [](pc \in {"while", "aloca", "retorna"} => Iteracoes <= NumNos)
  /\ [][(pc = "aloca" /\ pc' = "while") =>
           Len(ordem_execucao') > Len(ordem_execucao)]_vars
  /\ (pc \in {"while", "aloca"}) ~> (pc = "retorna")

C13_Witness ==
  /\ pc = "retorna" /\ num_proc = 2 /\ NumNos = 3 /\ Len(deltas) = 3

\* C14: with the iterations of two calls on one scheduler interleaved, each
\* call returns what a call alone returns under the policy it was started with.
C14_Intercaladas ==
  \A i \in Chamadas :
     conc[i].fase = "fim" =>
        <<conc[i].tempo, conc[i].ord>> = Sozinha(tasks, raiz, num_proc, conc[i].pol)

RECURSIVE FilhosDosNomes(_)
FilhosDosNomes(nomes) ==
  IF nomes = <<>> THEN <<>>
  ELSE tasks[NoDe(Head(nomes))].children \o FilhosDosNomes(Tail(nomes))

\* The tasks in the order in which they entered the ready collection: the
\* root at line 107, then the children of each completed task at line 140.
Entrada == <<raiz>> \o FilhosDosNomes(ordem_execucao)
Pos(s, x) == CHOOSE k \in 1..Len(s) : s[k] = x
SemPos(s, k) == SubSeq(s, 1, k - 1) \o SubSeq(s, k + 1, Len(s))

\* C15: every admission moves from ready to running a task that no task left
\* in ready precedes in duration order (shortest first under MIN, longest
\* first under MAX), and that entered ready before every task left there
\* with the same duration.
C15_OrdemAdmissao ==
  [][(pc = "aloca" /\ Len(executando') = Len(executando) + 1) =>
       LET t == executando'[Len(executando')].tarefa
       IN /\ \E k \in 1..Len(prontos) : prontos[k] = t /\ prontos' = SemPos(prontos, k)
          /\ \A j \in 1..Len(prontos') :
               LET u == prontos'[j]
               IN /\ politica = "MIN" => tasks[t].task_time <= tasks[u].task_time
                  /\ politica = "MAX" => tasks[t].task_time >= tasks[u].task_time
                  /\ tasks[t].task_time = tasks[u].task_time =>
                       Pos(Entrada, t) < Pos(Entrada, u)]_vars

\* A and B are done, C has just been admitted ahead of D, which arrived in
\* ready one iteration after C and has C's duration.
C15_Witness ==
  /\ tasks = ArvoreEmpates /\ num_proc = 1 /\ politica = "MAX" /\ pc = "aloca"
  /\ ordem_execucao = <<"A", "B">>
  /\ executando = <<[tarefa |-> 3, restante |-> 1]>>
  /\ prontos = <<4>>

\* The running items whose task has duration 0; at the time jump these are
\* tasks admitted in the current iteration.
DuracaoZero == {k \in 1..Len(executando) : tasks[executando[k].tarefa].task_time = 0}

\* C16: what is still running when an iteration starts has remaining >= 1; an
\* iteration that admitted a task of duration 0 adds 0 to the total time and
\* completes that task (its name enters the order, it leaves the running
\* collection, its children enter ready); any other iteration adds >= 1.
C16_DuracaoZero ==
  /\ [](pc = "while" => \A k \in 1..Len(executando) : executando[k].restante >= 1)
  /\ [][(pc = "aloca" /\ pc' = "while") =>
          IF DuracaoZero # {}
          THEN /\ tempo_total' = tempo_total
               /\ deltas'[Len(deltas')] = 0
               /\ Len(executando') <= Len(executando) - Cardinality(DuracaoZero)
               /\ \A k \in DuracaoZero :
                    LET t == executando[k].tarefa
                    IN /\ Ocorrencias(ordem_execucao, tasks[t].task_name) = 0
                       /\ Ocorrencias(ordem_execucao', tasks[t].task_name) = 1
                       /\ \A j \in 1..Len(executando') : executando'[j].tarefa # t
                       /\ \A c \in Range(tasks[t].children) :
                            Ocorrencias(prontos, c) = 0 /\ Ocorrencias(prontos', c) = 1
          ELSE /\ tempo_total' >= tempo_total + 1
               /\ deltas'[Len(deltas')] >= 1]_vars

\* A (0) is done; B (2) and C (0) were admitted together: C completed at once
\* with a jump of 0 and B keeps its 2 units.
C16_Witness ==
  /\ tasks = Arvore(<<0, 1, 1>>, <<0, 2, 0>>) /\ num_proc = 2 /\ pc = "while"
  /\ deltas = <<0, 0>> /\ tempo_total = 0
  /\ ordem_execucao = <<"A", "C">>
  /\ executando = <<[tarefa |-> 2, restante |-> 2]>>

Tarefas(exe) == [k \in 1..Len(exe) |-> exe[k].tarefa]
NomesDe(s) == [k \in 1..Len(s) |-> tasks[s[k]].task_name]
MenorRestante(it) == \A k \in 1..Len(executando) : it.restante <= executando[k].restante

\* C17: the running collection is kept in admission order; the tasks that
\* complete in one iteration are appended to the order in that order, and
\* their children are appended to ready parent by parent in the same order,
\* each parent's children in its children-list order.
C17_OrdemConclusao ==
  /\ [][(pc = "aloca" /\ Len(executando') = Len(executando) + 1) =>
          SubSeq(executando', 1, Len(executando)) = executando]_vars
  /\ [][(pc = "aloca" /\ pc' = "while") =>
          LET terminam == Tarefas(SelectSeq(executando, MenorRestante))
              ficam == Tarefas(SelectSeq(executando, LAMBDA it : ~MenorRestante(it)))
          IN /\ ordem_execucao' = ordem_execucao \o NomesDe(terminam)
             /\ prontos' = prontos \o FilhosDosNomes(NomesDe(terminam))
             /\ Tarefas(executando') = ficam]_vars

\* B and C, admitted in this order, completed together: B then C follow A in
\* the order, and D (child of B) is ahead of E (child of C) in ready.
C17_Witness ==
  /\ tasks = ArvoreEmpates /\ num_proc = 2 /\ pc = "while"
  /\ ordem_execucao = <<"A", "B", "C">>
  /\ prontos = <<4, 5>>
  /\ executando = <<>>

\* C18: with at least one processor, once the admission step is over the
\* running collection is not empty, and the loop is left only with ready and
\* running both empty and every task in the order.
C18_SemParadaAntecipada ==
  num_proc >= 1 =>
    /\ (pc = "aloca" /\ (Len(executando) >= num_proc \/ prontos = <<>>)) => executando # <<>>
    /\ pc = "retorna" => /\ prontos = <<>>
                         /\ executando = <<>>
                         /\ \A i \in Nos : Ocorrencias(ordem_execucao, tasks[i].task_name) = 1

\* One processor, A done, one of its two children admitted and the other
\* still waiting in ready.
C18_Witness ==
  /\ pc = "aloca" /\ num_proc = 1 /\ NumNos = 3
  /\ Len(ordem_execucao) = 1 /\ Len(executando) = 1 /\ Len(prontos) = 1

\* C19: with at least one processor the returned total time is at most the
\* sum of the durations of all tasks.
C19_LimiteSuperior ==
  (pc = "retorna" /\ num_proc >= 1) => tempo_total <= SomaDuracoes

\* A (5), then B (3) and C (2) side by side: 8 of a sum of 10.
C19_Witness ==
  /\ pc = "retorna" /\ tasks = ArvoreABC /\ num_proc = 2
  /\ tempo_total = 8 /\ SomaDuracoes = 10

Maior(S) == CHOOSE x \in S : \A y \in S : y <= x

\* The largest sum of durations along a path from node i down to a leaf.
RECURSIVE CaminhoCritico(_)
CaminhoCritico(i) ==
  tasks[i].task_time +
    (IF tasks[i].children = <<>> THEN 0
     ELSE Maior({CaminhoCritico(c) : c \in Range(tasks[i].children)}))

\* C20: with at least as many processors as nodes, a run returns the
\* critical-path length under either policy, and compara_politicas reports
\* that same value for both.
C20_CaminhoCritico ==
  num_proc >= NumNos =>
    /\ pc = "retorna" => tempo_total = CaminhoCritico(raiz)
    /\ retorno.op = "compara" =>
         /\ retorno.info.politica_min = CaminhoCritico(raiz)
         /\ retorno.info.politica_max = CaminhoCritico(raiz)

\* A (0) with children B (1) and C (2) on three processors: both runs of the
\* comparison took 2, the longer of the two paths.
C20_Witness ==
  /\ tasks = Arvore(<<0, 1, 1>>, <<0, 1, 2>>) /\ num_proc = 3
  /\ retorno.op = "compara"
  /\ retorno.info.politica_min = 2 /\ retorno.info.politica_max = 2
====
